---- MODULE Spec2Model ----
(***************************************************************************)
(* Config editor: the main window (main.py), the alarm editing session     *)
(* (alarm_interface.py) and the note editing session (note_interface.py)   *)
(* over the document held by ConfigManager (config_manager.py).            *)
(*                                                                         *)
(* The document is the triple (lib, trigs, notes):                         *)
(*   lib   = config_data["specialEffectLibrary"]                           *)
(*   trigs = config_data["meshes"][0]["specialEffectTriggers"]             *)
(*   notes = config_data["notes"], with key = FALSE when the key is absent *)
(* Python positions are 0-based and are kept 0-based here; a TLA+ sequence *)
(* is 1-based, so Python's a[i] is a[i + 1].                               *)
(*                                                                         *)
(* The strings the program parses or formats (the time field of a trigger, *)
(* the time typed into the form, the text typed into a note) are sequences *)
(* of one-character strings; for the time field an absent dict key is      *)
(* NoKey and a JSON null is Null.  Names and audio file names are never    *)
(* parsed and are TLA+ strings; for them and for the loop and visible      *)
(* fields an absent key is Absent.                                         *)
(***************************************************************************)
EXTENDS Integers, Sequences, FiniteSets, TLC

VARIABLES lib, trigs, notes,     \* the document ConfigManager holds
          diskLib, diskTrigs, diskNotes,   \* the document in config.json
          file,                  \* config.json: "ok", "missing", "malformed"
          alarms, type6_effects, type6_to_actual_index,   \* the alarm session
          noteView, bound,       \* the note session: self.notes, and whether
                                 \* it is the list object the document holds
          main,                  \* the main window: its buttons, the open editors
          probe,                 \* the time field under test, and its decoding
          last,                  \* the handler that ran last, and the one before
          ops                    \* the number of handlers run so far

vars == <<lib, trigs, notes, diskLib, diskTrigs, diskNotes, file,
          alarms, type6_effects, type6_to_actual_index,
          noteView, bound, main, probe, last, ops>>

(* What the alarm handlers leave alone *)
noteVars == <<notes, noteView, bound>>

(* What the note handlers leave alone *)
alarmVars == <<lib, trigs, alarms, type6_effects, type6_to_actual_index>>

-----------------------------------------------------------------------------
(* Bounds of the model *)

(* The number of handlers a session runs *)
MaxOps == 3

(* Program constants *)

DisabledOffset == 100000
AlarmType == 6

-----------------------------------------------------------------------------
(* JSON values *)

NoKey == <<"<no key>">>
Null == <<"<null>">>
Absent == "<absent>"

DigitChars == <<"0", "1", "2", "3", "4", "5", "6", "7", "8", "9">>

IsDigit(c) == \E d \in 1..10 : DigitChars[d] = c

DigitVal(c) == (CHOOSE d \in 1..10 : DigitChars[d] = c) - 1

RECURSIVE NatStr(_)
NatStr(n) == IF n < 10 THEN <<DigitChars[n + 1]>>
             ELSE NatStr(n \div 10) \o <<DigitChars[(n % 10) + 1]>>

(* Python str() of an int *)
PyStr(n) == IF n < 0 THEN <<"-">> \o NatStr(0 - n) ELSE NatStr(n)

RECURSIVE DigitsVal(_)
DigitsVal(s) == IF Len(s) = 0 THEN 0
                ELSE 10 * DigitsVal(SubSeq(s, 1, Len(s) - 1)) + DigitVal(s[Len(s)])

AllDigits(s) == Len(s) > 0 /\ \A k \in 1..Len(s) : IsDigit(s[k])

Whitespace == {" ", "\n", "\t"}

RECURSIVE LStrip(_)
LStrip(s) == IF Len(s) > 0 /\ s[1] \in Whitespace THEN LStrip(Tail(s)) ELSE s

RECURSIVE RStrip(_)
RStrip(s) == IF Len(s) > 0 /\ s[Len(s)] \in Whitespace
             THEN RStrip(SubSeq(s, 1, Len(s) - 1)) ELSE s

(* str.strip() *)
Strip(s) == RStrip(LStrip(s))

(* int() of a string without blanks around it *)
PyIntLiteral(s) ==
    IF Len(s) = 0 THEN [ok |-> FALSE, val |-> 0]
    ELSE IF s[1] \in {"-", "+"}
         THEN IF AllDigits(Tail(s))
              THEN [ok |-> TRUE,
                    val |-> IF s[1] = "-" THEN 0 - DigitsVal(Tail(s))
                            ELSE DigitsVal(Tail(s))]
              ELSE [ok |-> FALSE, val |-> 0]
         ELSE IF AllDigits(s) THEN [ok |-> TRUE, val |-> DigitsVal(s)]
              ELSE [ok |-> FALSE, val |-> 0]

(* Python int() of a JSON value: [ok, val]; ok = FALSE stands for the      *)
(* ValueError (a string that is no integer literal) or the TypeError       *)
(* (null) that int() raises.  Over the alphabet of the modelled strings    *)
(* the literal form is a sign followed by decimal digits, with blanks      *)
(* before and after it.                                                    *)
PyInt(s) ==
    IF s = Null \/ s = NoKey THEN [ok |-> FALSE, val |-> 0]
    ELSE PyIntLiteral(Strip(s))

(* str.split(':') *)
RECURSIVE Split(_)
Split(s) ==
    IF \A k \in 1..Len(s) : s[k] # ":" THEN <<s>>
    ELSE LET p == CHOOSE k \in 1..Len(s) :
                      s[k] = ":" /\ \A j \in 1..(k - 1) : s[j] # ":"
         IN <<SubSeq(s, 1, p - 1)>> \o Split(SubSeq(s, p + 1, Len(s)))

(* time_to_seconds with the hour 24 let through *)
time_to_seconds_HourInclusive(time_str) ==
    LET parts == Split(time_str) IN
    IF Len(parts) # 2 THEN -1
    ELSE LET h == PyInt(parts[1])
             m == PyInt(parts[2])
         IN IF h.ok /\ m.ok /\ 0 <= h.val /\ h.val <= 24 /\ 0 <= m.val /\ m.val < 60
            THEN h.val * 3600 + m.val * 60
            ELSE -1

(* utils.time_to_seconds: -1 on any failure *)
time_to_seconds(time_str) ==
    LET parts == Split(time_str) IN
    IF Len(parts) # 2 THEN -1
    ELSE LET h == PyInt(parts[1])
             m == PyInt(parts[2])
         IN IF h.ok /\ m.ok /\ 0 <= h.val /\ h.val < 24 /\ 0 <= m.val /\ m.val < 60
            THEN h.val * 3600 + m.val * 60
            ELSE -1

(* EncodeTime adding the offset for the enabled alarms instead *)
EncodeTime_OffsetsEnabled(seconds, enabled) ==
    PyStr(IF enabled THEN seconds + DisabledOffset ELSE seconds)

(* str(seconds if enabled else seconds + 100000) *)
EncodeTime(seconds, enabled) ==
    PyStr(IF enabled THEN seconds ELSE seconds + DisabledOffset)

-----------------------------------------------------------------------------
(* ConfigManager: the effect library *)

IsType6(e) == e.type = AlarmType

(* The 0-based positions of the type-6 entries of L, in library order:     *)
(* type6_indices of ConfigManager, type6_to_actual_index of the session    *)
(* (entry k + 1 is the absolute position of type-6 index k).               *)
(* Type6Scan recording the type-6 count where the position belongs *)
RECURSIVE Type6Scan_RecordsCount(_, _)
Type6Scan_RecordsCount(L, n) ==
    IF n = 0 THEN <<>>
    ELSE IF IsType6(L[n])
         THEN Append(Type6Scan_RecordsCount(L, n - 1),
                     Len(Type6Scan_RecordsCount(L, n - 1)))
         ELSE Type6Scan_RecordsCount(L, n - 1)

RECURSIVE Type6Scan(_, _)
Type6Scan(L, n) ==
    IF n = 0 THEN <<>>
    ELSE IF IsType6(L[n]) THEN Append(Type6Scan(L, n - 1), n - 1)
         ELSE Type6Scan(L, n - 1)

Type6Indices(L) == Type6Scan(L, Len(L))

get_type6_effects(L) == SelectSeq(L, IsType6)

RemoveAt(s, p) == SubSeq(s, 1, p - 1) \o SubSeq(s, p + 1, Len(s))

(* set_type6_effect taking the type-6 index for an absolute position *)
set_type6_effect_ByPosition(L, index, effect) ==
    IF 0 <= index /\ index < Len(L) THEN [L EXCEPT ![index + 1] = effect] ELSE L

set_type6_effect(L, index, effect) ==
    LET type6_indices == Type6Indices(L) IN
    IF 0 <= index /\ index < Len(type6_indices)
    THEN [L EXCEPT ![type6_indices[index + 1] + 1] = effect]
    ELSE L

add_type6_effect(L, effect) == Append(L, effect)

(* remove_type6_effect taking the type-6 index for an absolute position *)
remove_type6_effect_ByPosition(L, index) ==
    IF 0 <= index /\ index < Len(L) THEN RemoveAt(L, index + 1) ELSE L

remove_type6_effect(L, index) ==
    LET type6_indices == Type6Indices(L) IN
    IF 0 <= index /\ index < Len(type6_indices)
    THEN RemoveAt(L, type6_indices[index + 1] + 1)
    ELSE L

-----------------------------------------------------------------------------
(* ConfigManager: the trigger array *)

HasTime(t) == t.triggerAtSecondOfDay # NoKey

NoTime(t) == t.triggerAtSecondOfDay = NoKey

get_time_triggers(T) == SelectSeq(T, HasTime)

(* set_time_triggers without the filter of line 153 *)
set_time_triggers_KeepsOld(T, triggers) == T \o triggers

set_time_triggers(T, triggers) == SelectSeq(T, NoTime) \o triggers

(* dict.get(key): None for an absent key *)
Get(v) == IF v = NoKey THEN Null ELSE v

(* AlarmInterface._remove_time_trigger *)
RemoveTimeTrigger(T, trigger_index) ==
    LET time_triggers == get_time_triggers(T) IN
    IF 0 <= trigger_index /\ trigger_index < Len(time_triggers)
    THEN LET time_trigger == time_triggers[trigger_index + 1]
             Same(t) == /\ Get(t.triggerAtSecondOfDay)
                             = Get(time_trigger.triggerAtSecondOfDay)
                        /\ t.effectIndices = time_trigger.effectIndices
             i == CHOOSE k \in 1..Len(T) :
                      Same(T[k]) /\ \A j \in 1..(k - 1) : ~Same(T[j])
         IN RemoveAt(T, i)
    ELSE T

-----------------------------------------------------------------------------
(* AlarmInterface._load_data *)

(* Decode taking exactly 100000 for an enabled alarm *)
Decode_StrictThreshold(raw) ==
    LET r == PyInt(raw)
        parsed == IF r.ok THEN r.val ELSE 0
    IN IF parsed > DisabledOffset
       THEN [seconds |-> parsed - DisabledOffset, enabled |-> FALSE]
       ELSE [seconds |-> parsed, enabled |-> TRUE]

(* lines 63-73: seconds and enabled of a stored time field *)
Decode(raw) ==
    LET r == PyInt(raw)
        parsed == IF r.ok THEN r.val ELSE 0
    IN IF parsed >= DisabledOffset
       THEN [seconds |-> parsed - DisabledOffset, enabled |-> FALSE]
       ELSE [seconds |-> parsed, enabled |-> TRUE]

(* actual_to_type6_index.get(actual_index, -1) *)
ActualToType6(map, actual_index) ==
    IF \E k \in 1..Len(map) : map[k] = actual_index
    THEN (CHOOSE k \in 1..Len(map) : map[k] = actual_index) - 1
    ELSE -1

(* effect.get("audioFileName", "") *)
EffectAudio(e) == IF e.audioFileName = Absent THEN "" ELSE e.audioFileName

(* effect.get("loop", False) *)
EffectLoop(e) == e.loop = "true"

(* The view-record of time trigger number trigger_idx, or none *)
Resolves(L, trigger) ==
    /\ Len(trigger.effectIndices) > 0
    /\ ActualToType6(Type6Indices(L), trigger.effectIndices[1]) >= 0

(* AlarmOf taking the absolute position for the type-6 index *)
AlarmOf_AbsoluteAsType6(L, trigger, trigger_idx) ==
    LET d == Decode(trigger.triggerAtSecondOfDay)
        actual_index == trigger.effectIndices[1]
        effect == L[actual_index + 1]
    IN [seconds |-> d.seconds,
        enabled |-> d.enabled,
        name |-> effect.text,
        audio_file |-> EffectAudio(effect),
        loop |-> EffectLoop(effect),
        type6_index |-> actual_index,
        actual_index |-> actual_index,
        trigger |-> trigger,
        trigger_index |-> trigger_idx]

AlarmOf(L, trigger, trigger_idx) ==
    LET d == Decode(trigger.triggerAtSecondOfDay)
        actual_index == trigger.effectIndices[1]
        type6_index == ActualToType6(Type6Indices(L), actual_index)
        effect == get_type6_effects(L)[type6_index + 1]
    IN [seconds |-> d.seconds,
        enabled |-> d.enabled,
        name |-> effect.text,
        audio_file |-> EffectAudio(effect),
        loop |-> EffectLoop(effect),
        type6_index |-> type6_index,
        actual_index |-> actual_index,
        trigger |-> trigger,
        trigger_index |-> trigger_idx]

RECURSIVE LoadScan(_, _, _)
LoadScan(L, time_triggers, n) ==
    IF n = 0 THEN <<>>
    ELSE IF Resolves(L, time_triggers[n])
         THEN Append(LoadScan(L, time_triggers, n - 1),
                     AlarmOf(L, time_triggers[n], n - 1))
         ELSE LoadScan(L, time_triggers, n - 1)

(* LoadAlarms scanning every trigger instead of the time triggers *)
LoadAlarms_AllTriggers(L, T) == LoadScan(L, T, Len(T))

LoadAlarms(L, T) ==
    LET time_triggers == get_time_triggers(T)
    IN LoadScan(L, time_triggers, Len(time_triggers))

-----------------------------------------------------------------------------
(* AlarmInterface._edit_alarm.save_alarm, _delete_alarm, _save_alarms *)

(* UpdatedEffect leaving the audio field in place when no audio is given *)
UpdatedEffect_KeepsAudio(old_effect, name, audio, loop) ==
    [old_effect EXCEPT !.text = name,
                       !.audioFileName = IF audio # "" THEN audio ELSE @,
                       !.loop = IF loop THEN "true" ELSE Absent]

(* lines 241-251: the old effect with text, audioFileName and loop set *)
UpdatedEffect(old_effect, name, audio, loop) ==
    [old_effect EXCEPT !.text = name,
                       !.audioFileName = IF audio # "" THEN audio ELSE Absent,
                       !.loop = IF loop THEN "true" ELSE Absent]

(* NewEffect writing loop: false instead of leaving the field out *)
NewEffect_WritesLoopFalse(name, audio, loop) ==
    [type |-> AlarmType,
     text |-> name,
     audioFileName |-> IF audio # "" THEN audio ELSE Absent,
     loop |-> IF loop THEN "true" ELSE "false",
     pass |-> 0]

(* lines 275-294: a new type-6 effect with the default layout fields *)
NewEffect(name, audio, loop) ==
    [type |-> AlarmType,
     text |-> name,
     audioFileName |-> IF audio # "" THEN audio ELSE Absent,
     loop |-> IF loop THEN "true" ELSE Absent,
     pass |-> 0]

(* lines 256-258: the stored trigger copy with time and references set *)
UpdatedTrigger(trigger, seconds, enabled, actual_index) ==
    [trigger EXCEPT !.triggerAtSecondOfDay = EncodeTime(seconds, enabled),
                    !.effectIndices = <<actual_index>>]

(* lines 311-314 *)
NewTrigger(seconds, enabled, actual_index) ==
    [triggerAtSecondOfDay |-> EncodeTime(seconds, enabled),
     effectIndices |-> <<actual_index>>,
     extra |-> 0]

(* SaveScan trusting the stored actual_index instead of the fresh map *)
RECURSIVE SaveScan_StoredIndex(_, _, _)
SaveScan_StoredIndex(view, map, n) ==
    IF n = 0 THEN <<>>
    ELSE Append(SaveScan_StoredIndex(view, map, n - 1),
                UpdatedTrigger(view[n].trigger, view[n].seconds,
                               view[n].enabled, view[n].actual_index))

(* lines 393-409: the triggers Save builds from the view *)
RECURSIVE SaveScan(_, _, _)
SaveScan(view, map, n) ==
    IF n = 0 THEN <<>>
    ELSE LET alarm == view[n]
             type6_index == alarm.type6_index
             actual_index == IF 0 <= type6_index /\ type6_index < Len(map)
                             THEN map[type6_index + 1] ELSE -1
         IN IF actual_index >= 0
            THEN Append(SaveScan(view, map, n - 1),
                        UpdatedTrigger(alarm.trigger, alarm.seconds,
                                       alarm.enabled, actual_index))
            ELSE SaveScan(view, map, n - 1)

SavedTriggers(view, L) == SaveScan(view, Type6Indices(L), Len(view))

-----------------------------------------------------------------------------
(* The documents a session is opened on *)

(* A document without the notes key *)
NoNotes == [key |-> FALSE, list |-> <<>>]

(* No time field under test *)
NoProbe ==
    [seconds |-> -1, enabled |-> FALSE, field |-> NoKey,
     back |-> [seconds |-> -1, enabled |-> FALSE], done |-> FALSE]

Names == <<"A", "B", "C", "D">>

(* The library entry at 0-based position pos of an opened document *)
InitEffect(kind, pos) ==
    [type |-> kind,
     text |-> Names[pos + 1],
     audioFileName |-> IF pos % 2 = 1 THEN "a.mp3" ELSE Absent,
     loop |-> IF pos % 3 = 1 THEN "true" ELSE IF pos % 3 = 2 THEN "false" ELSE Absent,
     pass |-> pos + 1]

(* The kinds of the library entries of an opened document *)
InitKindLists ==
    { <<AlarmType>>, <<AlarmType, AlarmType>>, <<1, AlarmType>>, <<AlarmType, 1>>,
      <<1, AlarmType, AlarmType>>, <<AlarmType, 1, AlarmType>> }

T60 == <<"6", "0">>

T100120 == <<"1", "0", "0", "1", "2", "0">>

Trig(time, refs) == [triggerAtSecondOfDay |-> time, effectIndices |-> refs]

(* The trigger arrays of an opened document, before the extra field *)
InitTriggerLists ==
    { <<>>,
      <<Trig(T60, <<0>>)>>,
      <<Trig(T60, <<0>>), Trig(T100120, <<1>>)>>,
      <<Trig(T100120, <<1>>), Trig(T60, <<2>>)>>,
      <<Trig(NoKey, <<0>>), Trig(T60, <<0>>), Trig(NoKey, <<1>>)>>,
      <<Trig(T60, <<1>>), Trig(NoKey, <<2>>), Trig(T100120, <<0>>)>>,
      <<Trig(T60, <<0>>), Trig(T60, <<0>>)>>,
      <<Trig(T60, <<>>), Trig(T100120, <<1>>)>>,
      <<Trig(NoKey, <<0>>), Trig(Null, <<0>>)>>,
      <<Trig(T60, <<0>>), Trig(T100120, <<1>>), Trig(T60, <<2>>)>> }

(* What the user confirms in the edit form: time, enabled, name, audio, loop *)
FormInputs ==
    { <<<<"0", "8", ":", "0", "0">>, TRUE, "W", "", FALSE>>,
      <<<<"8", ":", "5">>, FALSE, "V", "b.mp3", TRUE>>,
      <<<<"2", "5", ":", "0", "0">>, TRUE, "W", "", FALSE>> }

Init ==
    /\ \E kinds \in InitKindLists :
          lib = [k \in 1..Len(kinds) |-> InitEffect(kinds[k], k - 1)]
    /\ \E ch \in InitTriggerLists :
          trigs = [k \in 1..Len(ch) |->
                      [triggerAtSecondOfDay |-> ch[k].triggerAtSecondOfDay,
                       effectIndices |-> ch[k].effectIndices,
                       extra |-> k]]
    /\ notes = NoNotes
    /\ diskLib = lib
    /\ diskTrigs = trigs
    /\ diskNotes = notes
    /\ file = "ok"
    /\ alarms = LoadAlarms(lib, trigs)
    /\ type6_effects = get_type6_effects(lib)
    /\ type6_to_actual_index = Type6Indices(lib)
    /\ noteView = <<>>
    /\ bound = FALSE
    /\ main = [buttons |-> TRUE, alarm |-> TRUE, note |-> FALSE]
    /\ probe = NoProbe
    /\ last = [op |-> "Open", idx |-> -1, ok |-> TRUE, prev |-> "None"]
    /\ ops = 0

(* _load_data on the document (L, T) *)
LoadData(L, T) ==
    /\ alarms' = LoadAlarms(L, T)
    /\ type6_effects' = get_type6_effects(L)
    /\ type6_to_actual_index' = Type6Indices(L)

(* save_alarm with a time that fails validation: lines 222-226 *)
Rejected(index, time_str) ==
    /\ time_to_seconds(time_str) < 0
    /\ last' = [op |-> "Rejected", idx |-> index, ok |-> FALSE, prev |-> last.op]
    /\ UNCHANGED <<lib, trigs, diskLib, diskTrigs,
                   alarms, type6_effects, type6_to_actual_index>>
    /\ UNCHANGED <<noteVars, diskNotes, file, main, probe>>

(* UpdateAlarm without the validation of lines 223-226 *)
UpdateAlarm_NoValidation(index, time_str, enabled, name, audio, loop) ==
    LET seconds == time_to_seconds(time_str)
        old_alarm == alarms[index + 1]
    IN /\ alarms' = [alarms EXCEPT ![index + 1] =
                        [old_alarm EXCEPT !.seconds = seconds,
                                          !.enabled = enabled,
                                          !.name = name,
                                          !.audio_file = audio,
                                          !.loop = loop]]
       /\ last' = [op |-> "Update", idx |-> index, ok |-> TRUE, prev |-> last.op]
       /\ UNCHANGED <<lib, trigs, diskLib, diskTrigs, type6_effects,
                      type6_to_actual_index>>
       /\ UNCHANGED <<noteVars, diskNotes, file, main, probe>>

(* save_alarm, index >= 0: lines 231-271 *)
UpdateAlarm(index, time_str, enabled, name, audio, loop) ==
    LET seconds == time_to_seconds(time_str)
        old_alarm == alarms[index + 1]
        type6_index == old_alarm.type6_index
        actual_index == old_alarm.actual_index
        effect_data == UpdatedEffect(type6_effects[type6_index + 1], name, audio, loop)
    IN /\ seconds >= 0
       /\ lib' = set_type6_effect(lib, type6_index, effect_data)
       /\ alarms' = [alarms EXCEPT ![index + 1] =
                        [seconds |-> seconds,
                         enabled |-> enabled,
                         name |-> name,
                         audio_file |-> audio,
                         loop |-> loop,
                         type6_index |-> type6_index,
                         actual_index |-> actual_index,
                         trigger |-> UpdatedTrigger(old_alarm.trigger, seconds,
                                                    enabled, actual_index),
                         trigger_index |-> old_alarm.trigger_index]]
       /\ last' = [op |-> "Update", idx |-> index, ok |-> TRUE, prev |-> last.op]
       /\ UNCHANGED <<trigs, diskLib, diskTrigs, type6_effects, type6_to_actual_index>>
       /\ UNCHANGED <<noteVars, diskNotes, file, main, probe>>

(* save_alarm, index = -1: lines 272-327 *)
CreateAlarm(time_str, enabled, name, audio, loop) ==
    LET seconds == time_to_seconds(time_str)
        newLib == add_type6_effect(lib, NewEffect(name, audio, loop))
        actual_index == Len(newLib) - 1
        old_alarm_count == Len(alarms)
        map == Type6Indices(newLib)
        type6_index == ActualToType6(map, actual_index)
        loaded == LoadAlarms(newLib, trigs)
    IN /\ seconds >= 0
       /\ lib' = newLib
       /\ type6_effects' = get_type6_effects(newLib)
       /\ type6_to_actual_index' = map
       /\ alarms' = IF type6_index >= 0
                    THEN Append(loaded,
                           [seconds |-> seconds,
                            enabled |-> enabled,
                            name |-> name,
                            audio_file |-> audio,
                            loop |-> loop,
                            type6_index |-> type6_index,
                            actual_index |-> actual_index,
                            trigger |-> NewTrigger(seconds, enabled, actual_index),
                            trigger_index |-> old_alarm_count])
                    ELSE loaded
       /\ last' = [op |-> "Create", idx |-> -1, ok |-> TRUE, prev |-> last.op]
       /\ UNCHANGED <<trigs, diskLib, diskTrigs>>
       /\ UNCHANGED <<noteVars, diskNotes, file, main, probe>>

(* _delete_alarm on the selected view-record: lines 343-358 *)
DeleteAlarm(index) ==
    LET alarm == alarms[index + 1]
        newTrigs == RemoveTimeTrigger(trigs, alarm.trigger_index)
        newLib == remove_type6_effect(lib, alarm.type6_index)
    IN /\ trigs' = newTrigs
       /\ lib' = newLib
       /\ LoadData(newLib, newTrigs)
       /\ last' = [op |-> "Delete", idx |-> index, ok |-> TRUE, prev |-> last.op]
       /\ UNCHANGED <<diskLib, diskTrigs>>
       /\ UNCHANGED <<noteVars, diskNotes, file, main, probe>>

(* ConfigManager.save_config writing the document (L, T, N); written says  *)
(* whether open() and json.dump succeeded.  A write that fails is one that *)
(* fails in open(), which leaves the file as it was.                       *)
save_config(L, T, N, written) ==
    IF written
    THEN /\ diskLib' = L
         /\ diskTrigs' = T
         /\ diskNotes' = N
         /\ file' = "ok"
    ELSE UNCHANGED <<diskLib, diskTrigs, diskNotes, file>>

(* _save_alarms; written says whether save_config wrote the file *)
SaveAlarms(written) ==
    LET newTrigs == set_time_triggers(trigs, SavedTriggers(alarms, lib))
    IN /\ trigs' = newTrigs
       /\ save_config(lib, newTrigs, notes, written)
       /\ IF written
          THEN LoadData(lib, newTrigs)
          ELSE UNCHANGED <<alarms, type6_effects, type6_to_actual_index>>
       /\ last' = [op |-> "Save", idx |-> -1, ok |-> written, prev |-> last.op]
       /\ UNCHANGED <<lib, noteVars, main, probe>>

(* MainWindow._open_alarm_interface / _open_note_interface while the       *)
(* session is open: load_config replaces the document by the file's        *)
MainReload ==
    /\ file = "ok"
    /\ lib' = diskLib
    /\ trigs' = diskTrigs
    /\ notes' = diskNotes
    /\ bound' = FALSE
    /\ last' = [op |-> "Reload", idx |-> -1, ok |-> TRUE, prev |-> last.op]
    /\ UNCHANGED <<diskLib, diskTrigs, alarms, type6_effects, type6_to_actual_index>>
    /\ UNCHANGED <<diskNotes, file, noteView, main, probe>>

-----------------------------------------------------------------------------
(* NoteInterface *)

(* text_widget.get("1.0", tk.END): the typed text and the newline tk ends  *)
(* the widget's content with                                               *)
WidgetText(typed) == typed \o <<"\n">>

(* WithVisible leaving the note as the document has it *)
WithVisible_LeavesAbsent(note) == note

(* _load_data, lines 34-36: a note without the visible field gets it *)
WithVisible(note) ==
    IF note.visible = Absent THEN [note EXCEPT !.visible = "true"] ELSE note

(* ConfigManager.get_notes followed by the loop of _load_data *)
LoadNotes(N) == [k \in 1..Len(N.list) |-> WithVisible(N.list[k])]

(* save_note, lines 161-166: the note the form confirms, built on the copy *)
(* of the edited note; a field the dictionary literal does not name is not *)
(* carried over                                                            *)
NoteData(note, visible, text_content) ==
    [visible |-> IF visible THEN "true" ELSE "false",
     backgroundImage |-> IF note.backgroundImage = Absent THEN "note.png"
                         ELSE note.backgroundImage,
     text |-> text_content,
     scale |-> IF note.scale = Absent THEN "0.5" ELSE note.scale,
     extra |-> Absent]

(* _edit_note, lines 129-134: the note an add starts from *)
DefaultNote ==
    [visible |-> "true", backgroundImage |-> "note.png", text |-> <<>>,
     scale |-> "0.5", extra |-> Absent]

(* A change of self.notes in place: the document's notes array changes     *)
(* with it when it is the same list object                                 *)
SetNoteView(view) ==
    /\ noteView' = view
    /\ notes' = IF bound THEN [key |-> TRUE, list |-> view] ELSE notes
    /\ UNCHANGED bound

(* save_note with a text that is empty after strip(): lines 155-158 *)
NoteRejected(index, typed) ==
    /\ Strip(WidgetText(typed)) = <<>>
    /\ last' = [op |-> "NoteRejected", idx |-> index, ok |-> FALSE, prev |-> last.op]
    /\ UNCHANGED <<alarmVars, noteVars, diskLib, diskTrigs, diskNotes,
                   file, main, probe>>

(* save_note, index >= 0: lines 155-174 *)
UpdateNote(index, visible, typed) ==
    LET text_content == Strip(WidgetText(typed)) IN
    /\ text_content # <<>>
    /\ SetNoteView([noteView EXCEPT ![index + 1] =
                        NoteData(noteView[index + 1], visible, text_content)])
    /\ last' = [op |-> "NoteUpdate", idx |-> index, ok |-> TRUE, prev |-> last.op]
    /\ UNCHANGED <<alarmVars, diskLib, diskTrigs, diskNotes, file, main, probe>>

(* save_note, index = -1 *)
CreateNote(visible, typed) ==
    LET text_content == Strip(WidgetText(typed)) IN
    /\ text_content # <<>>
    /\ SetNoteView(Append(noteView, NoteData(DefaultNote, visible, text_content)))
    /\ last' = [op |-> "NoteCreate", idx |-> -1, ok |-> TRUE, prev |-> last.op]
    /\ UNCHANGED <<alarmVars, diskLib, diskTrigs, diskNotes, file, main, probe>>

(* _delete_note on the selected note: lines 187-192 *)
DeleteNote(index) ==
    /\ SetNoteView(RemoveAt(noteView, index + 1))
    /\ last' = [op |-> "NoteDelete", idx |-> index, ok |-> TRUE, prev |-> last.op]
    /\ UNCHANGED <<alarmVars, diskLib, diskTrigs, diskNotes, file, main, probe>>

(* _save_notes: set_notes makes self.notes the document's notes array *)
SaveNotes(written) ==
    LET newNotes == [key |-> TRUE, list |-> noteView] IN
    /\ notes' = newNotes
    /\ bound' = TRUE
    /\ save_config(lib, trigs, newNotes, written)
    /\ last' = [op |-> "NoteSave", idx |-> -1, ok |-> written, prev |-> last.op]
    /\ UNCHANGED <<alarmVars, noteView, main, probe>>

(* What the user confirms in the note form: visible, typed text *)
NoteInputs ==
    { <<TRUE, <<"h", "i">>>>,
      <<FALSE, <<" ", "y", "\n">>>>,
      <<TRUE, <<" ", "\n">>>> }

NoteConfirm ==
    \E g \in NoteInputs :
        \/ CreateNote(g[1], g[2])
        \/ \E index \in 0..(Len(noteView) - 1) : UpdateNote(index, g[1], g[2])
        \/ \E index \in -1..(Len(noteView) - 1) : NoteRejected(index, g[2])

NoteDelete == \E index \in 0..(Len(noteView) - 1) : DeleteNote(index)

NoteSave == \E written \in BOOLEAN : SaveNotes(written)

-----------------------------------------------------------------------------
(* The handlers of the alarm editor's buttons *)

Confirm ==
    \E f \in FormInputs :
        \/ CreateAlarm(f[1], f[2], f[3], f[4], f[5])
        \/ \E index \in 0..(Len(alarms) - 1) :
              UpdateAlarm(index, f[1], f[2], f[3], f[4], f[5])
        \/ \E index \in -1..(Len(alarms) - 1) : Rejected(index, f[1])

Delete == \E index \in 0..(Len(alarms) - 1) : DeleteAlarm(index)

Save == \E written \in BOOLEAN : SaveAlarms(written)

Step == ops < MaxOps /\ ops' = ops + 1

Next == Step /\ (Confirm \/ Delete \/ Save)

Spec == Init /\ [][Next]_vars

NextShared == Step /\ (Confirm \/ Delete \/ Save \/ MainReload)

SpecShared == Init /\ [][NextShared]_vars

-----------------------------------------------------------------------------
(* Both editors open on one ConfigManager *)

(* The notes arrays of an opened document *)
InitNoteLists ==
    { NoNotes,
      [key |-> TRUE, list |-> <<>>],
      [key |-> TRUE,
       list |-> << [visible |-> Absent, backgroundImage |-> "a.png",
                    text |-> <<"m">>, scale |-> "0.8", extra |-> "x"],
                   [visible |-> "false", backgroundImage |-> Absent,
                    text |-> <<"n">>, scale |-> Absent, extra |-> Absent] >>] }

(* The alarm documents the two editors are opened on *)
EditorKindLists == { <<AlarmType>>, <<1, AlarmType, AlarmType>> }

EditorTriggerLists ==
    { <<Trig(T60, <<0>>)>>,
      <<Trig(NoKey, <<0>>), Trig(T60, <<1>>), Trig(T100120, <<2>>)>> }

(* Each editor is opened by a main window button after a load_config of    *)
(* its own; the note session's list is the document's notes array when the *)
(* note editor was opened last and the document has the key                *)
InitEditors ==
    /\ \E kinds \in EditorKindLists :
          lib = [k \in 1..Len(kinds) |-> InitEffect(kinds[k], k - 1)]
    /\ \E ch \in EditorTriggerLists :
          trigs = [k \in 1..Len(ch) |->
                      [triggerAtSecondOfDay |-> ch[k].triggerAtSecondOfDay,
                       effectIndices |-> ch[k].effectIndices,
                       extra |-> k]]
    /\ diskNotes \in InitNoteLists
    /\ bound \in {b \in BOOLEAN : b => diskNotes.key}
    /\ noteView = LoadNotes(diskNotes)
    /\ notes = IF bound THEN [key |-> TRUE, list |-> noteView] ELSE diskNotes
    /\ diskLib = lib
    /\ diskTrigs = trigs
    /\ file = "ok"
    /\ alarms = LoadAlarms(lib, trigs)
    /\ type6_effects = get_type6_effects(lib)
    /\ type6_to_actual_index = Type6Indices(lib)
    /\ main = [buttons |-> TRUE, alarm |-> TRUE, note |-> TRUE]
    /\ probe = NoProbe
    /\ last = [op |-> "Open", idx |-> -1, ok |-> TRUE, prev |-> "None"]
    /\ ops = 0

NextEditors ==
    Step /\ (Confirm \/ Delete \/ Save \/ NoteConfirm \/ NoteDelete \/ NoteSave)

SpecEditors == InitEditors /\ [][NextEditors]_vars

-----------------------------------------------------------------------------
(* The main window *)

(* A JSON number json.load reads as the float inf (1e999, Infinity) *)
Infinity == <<"<inf>">>

(* int() raising OverflowError, which the except clause of line 66 does    *)
(* not name: _load_data ends there with the exception                      *)
Overflows(raw) == raw = Infinity

LoadCrashes(T) ==
    LET time_triggers == get_time_triggers(T) IN
    \E k \in 1..Len(time_triggers) : Overflows(time_triggers[k].triggerAtSecondOfDay)

(* The time fields of the documents the main window opens *)
MainTimes ==
    { T60, T100120,
      <<"9", "0", "0", "0", "0">>,
      <<"1", "9", "0", "0", "0", "0">>,
      <<"-", "5">>,
      <<"a", "b", "c">>,
      <<"6", "0", "s">>,
      <<>>,
      Null,
      Infinity }

(* The effect reference lists of those documents; a trigger without the    *)
(* effectIndices key reads as one with the empty list (line 75)            *)
MainRefs == { <<0>>, <<1>>, <<2>>, <<>>, <<7>>, <<-1>>, <<1, 0>> }

MainTriggerLists ==
    InitTriggerLists \cup
    { <<Trig(NoKey, <<0>>), Trig(t, r), Trig(T60, <<1>>)>> :
          t \in MainTimes, r \in MainRefs }

(* The document of the directory "good" of SetDirectory *)
GoodLib == <<InitEffect(AlarmType, 0)>>

GoodTrigs == <<[triggerAtSecondOfDay |-> T60, effectIndices |-> <<0>>, extra |-> 1]>>

(* The main window after _set_directory loaded a document, no editor open *)
InitMain ==
    /\ \E kinds \in InitKindLists :
          lib = [k \in 1..Len(kinds) |-> InitEffect(kinds[k], k - 1)]
    /\ \E ch \in MainTriggerLists :
          trigs = [k \in 1..Len(ch) |->
                      [triggerAtSecondOfDay |-> ch[k].triggerAtSecondOfDay,
                       effectIndices |-> ch[k].effectIndices,
                       extra |-> k]]
    /\ notes \in InitNoteLists
    /\ diskLib = lib
    /\ diskTrigs = trigs
    /\ diskNotes = notes
    /\ file = "ok"
    /\ alarms = <<>>
    /\ type6_effects = <<>>
    /\ type6_to_actual_index = <<>>
    /\ noteView = <<>>
    /\ bound = FALSE
    /\ main = [buttons |-> TRUE, alarm |-> FALSE, note |-> FALSE]
    /\ probe = NoProbe
    /\ last = [op |-> "SetDirectory", idx |-> -1, ok |-> TRUE, prev |-> "None"]
    /\ ops = 0

(* ConfigManager.load_config: the document is replaced by the file's when  *)
(* the file exists and parses, and is left as it is otherwise              *)
load_config(ok) ==
    /\ lib' = IF ok THEN diskLib ELSE lib
    /\ trigs' = IF ok THEN diskTrigs ELSE trigs
    /\ UNCHANGED <<diskLib, diskTrigs, diskNotes, file>>

(* MainWindow._open_alarm_interface: load_config, its result dropped, then *)
(* AlarmInterface.__init__ and its _load_data                              *)
OpenAlarmInterface ==
    LET ok == file = "ok" IN
    /\ main.buttons
    /\ load_config(ok)
    /\ notes' = IF ok THEN diskNotes ELSE notes
    /\ bound' = IF ok THEN FALSE ELSE bound
    /\ IF LoadCrashes(trigs')
       THEN /\ UNCHANGED <<alarms, type6_effects, type6_to_actual_index, main>>
            /\ last' = [op |-> "OpenAlarmCrashed", idx |-> -1, ok |-> ok,
                        prev |-> last.op]
       ELSE /\ LoadData(lib', trigs')
            /\ main' = [main EXCEPT !.alarm = TRUE]
            /\ last' = [op |-> "OpenAlarm", idx |-> -1, ok |-> ok, prev |-> last.op]
    /\ UNCHANGED <<noteView, probe>>

(* MainWindow._open_note_interface: load_config, its result dropped, then  *)
(* NoteInterface.__init__ and its _load_data, which writes the visible     *)
(* field into the notes of the document                                    *)
OpenNoteInterface ==
    LET ok == file = "ok"
        N == IF ok THEN diskNotes ELSE notes
    IN /\ main.buttons
       /\ load_config(ok)
       /\ noteView' = LoadNotes(N)
       /\ notes' = IF N.key THEN [key |-> TRUE, list |-> LoadNotes(N)] ELSE N
       /\ bound' = N.key
       /\ main' = [main EXCEPT !.note = TRUE]
       /\ last' = [op |-> "OpenNote", idx |-> -1, ok |-> ok, prev |-> last.op]
       /\ UNCHANGED <<alarms, type6_effects, type6_to_actual_index, probe>>

(* MainWindow._set_directory on a directory without config.json ("none"),  *)
(* with a config.json that is no JSON ("bad"), with a config.json holding  *)
(* the document (GoodLib, GoodTrigs) ("good")                              *)
SetDirectory(directory) ==
    /\ IF directory = "none"
       THEN /\ main' = [main EXCEPT !.buttons = FALSE]
            /\ UNCHANGED <<lib, trigs, notes, bound,
                           diskLib, diskTrigs, diskNotes, file>>
       ELSE IF directory = "bad"
       THEN /\ main' = [main EXCEPT !.buttons = FALSE]
            /\ file' = "malformed"
            /\ diskLib' = <<>>
            /\ diskTrigs' = <<>>
            /\ diskNotes' = NoNotes
            /\ UNCHANGED <<lib, trigs, notes, bound>>
       ELSE /\ main' = [main EXCEPT !.buttons = TRUE]
            /\ file' = "ok"
            /\ diskLib' = GoodLib
            /\ diskTrigs' = GoodTrigs
            /\ diskNotes' = NoNotes
            /\ lib' = GoodLib
            /\ trigs' = GoodTrigs
            /\ notes' = NoNotes
            /\ bound' = FALSE
    /\ last' = [op |-> "SetDirectory", idx |-> -1, ok |-> directory = "good",
                prev |-> last.op]
    /\ UNCHANGED <<alarms, type6_effects, type6_to_actual_index, noteView, probe>>

(* Another program removes config.json or overwrites it with text that is  *)
(* no JSON                                                                 *)
FileLost(how) ==
    /\ file = "ok"
    /\ file' = how
    /\ diskLib' = <<>>
    /\ diskTrigs' = <<>>
    /\ diskNotes' = NoNotes
    /\ last' = [op |-> "FileLost", idx |-> -1, ok |-> TRUE, prev |-> last.op]
    /\ UNCHANGED <<alarmVars, noteVars, main, probe>>

ChooseDirectory == \E directory \in {"none", "bad", "good"} : SetDirectory(directory)

LoseFile == \E how \in {"missing", "malformed"} : FileLost(how)

NextMain ==
    Step /\ (OpenAlarmInterface \/ OpenNoteInterface \/ ChooseDirectory \/ LoseFile)

SpecMain == InitMain /\ [][NextMain]_vars

-----------------------------------------------------------------------------
(* The time field of one alarm, written and read back *)

(* The seconds of a day: 24 hours of 60 minutes of 60 seconds *)
DayLength == 24 * 60 * 60

(* An alarm editor opened on the document (GoodLib, GoodTrigs), and the    *)
(* seconds and enabled flag of a view-record                               *)
InitCodec ==
    /\ lib = GoodLib
    /\ trigs = GoodTrigs
    /\ notes = NoNotes
    /\ diskLib = lib
    /\ diskTrigs = trigs
    /\ diskNotes = notes
    /\ file = "ok"
    /\ alarms = LoadAlarms(lib, trigs)
    /\ type6_effects = get_type6_effects(lib)
    /\ type6_to_actual_index = Type6Indices(lib)
    /\ noteView = <<>>
    /\ bound = FALSE
    /\ main = [buttons |-> TRUE, alarm |-> TRUE, note |-> FALSE]
    /\ \E seconds \in 0..(DayLength - 1), enabled \in BOOLEAN :
          probe = [NoProbe EXCEPT !.seconds = seconds, !.enabled = enabled]
    /\ last = [op |-> "Open", idx |-> -1, ok |-> TRUE, prev |-> "None"]
    /\ ops = 0

(* The time field Update, Create and Save write for the record (lines 257, *)
(* 312, 396-407), and what the loop of _load_data reads from it (lines     *)
(* 63-73)                                                                  *)
WriteAndList ==
    /\ ~probe.done
    /\ LET field == EncodeTime(probe.seconds, probe.enabled) IN
       probe' = [probe EXCEPT !.field = field, !.back = Decode(field), !.done = TRUE]
    /\ last' = [op |-> "WriteAndList", idx |-> -1, ok |-> TRUE, prev |-> last.op]
    /\ UNCHANGED <<alarmVars, noteVars, diskLib, diskTrigs, diskNotes, file, main>>

NextCodec == Step /\ WriteAndList

SpecCodec == InitCodec /\ [][NextCodec]_vars

-----------------------------------------------------------------------------
(* What the claims speak of *)

(* The values a view-record shows: seconds, enabled, name, audio, loop *)
Shown(a) == <<a.seconds, a.enabled, a.name, a.audio_file, a.loop>>

ShownList(view) == [k \in 1..Len(view) |-> Shown(view[k])]

Deleted(i) == last'.op = "Delete" /\ last'.idx = i

Created == last'.op = "Create"

Saved == last'.op = "Save"

NotType6(e) == ~IsType6(e)

(* The number of type-6 entries before 0-based position p of L *)
Type6Before(L, p) == Cardinality({q \in 1..Len(L) : q <= p /\ IsType6(L[q])})

Type6Count(L) == Type6Before(L, Len(L))

(* How many entries of T equal trigger t in every field *)
Copies(T, t) == Cardinality({k \in 1..Len(T) : T[k] = t})

(* A plain document: every time trigger has a string for its time field   *)
(* and one reference, a position of the library, that no other time        *)
(* trigger has                                                             *)
PlainDocument ==
    LET tt == get_time_triggers(trigs) IN
    /\ \A k \in 1..Len(tt) :
          /\ tt[k].triggerAtSecondOfDay # Null
          /\ Len(tt[k].effectIndices) = 1
          /\ tt[k].effectIndices[1] \in 0..(Len(lib) - 1)
    /\ \A j, k \in 1..Len(tt) : j # k => tt[j].effectIndices # tt[k].effectIndices

(* Every alarm of the view has a library entry of its own *)
OwnEntries ==
    \A i, j \in 1..Len(alarms) :
        i # j => alarms[i].actual_index # alarms[j].actual_index

(* C1: Delete of alarm i from a view that lists the document's N alarms,   *)
(* followed by the reload, shows exactly the other N - 1 alarms with the   *)
(* seconds, enabled, name, audio and loop they had (stated for plain       *)
(* documents)                                                              *)
C1_DeleteKeepsOthers ==
    [][\A i \in 0..(Len(alarms) - 1) :
          (Deleted(i) /\ alarms = LoadAlarms(lib, trigs) /\ PlainDocument)
             => ShownList(LoadAlarms(lib', trigs'))
                    = RemoveAt(ShownList(alarms), i + 1)]_vars

(* C2: Delete removes from the trigger array only a trigger whose time     *)
(* field and reference list equal the view-record's stored copy, and       *)
(* nothing when no trigger equals that copy (stated for the claim's own    *)
(* case of drift, on a plain document: the Delete of the alarm created     *)
(* just before and not saved)                                              *)
C2_DeleteMatchesStoredCopy ==
    [][\A i \in 0..(Len(alarms) - 1) :
          (/\ Deleted(i) /\ last.op = "Create" /\ i = Len(alarms) - 1
           /\ PlainDocument /\ OwnEntries) =>
             LET copy == alarms[i + 1].trigger
                 Match(t) == /\ t.triggerAtSecondOfDay = copy.triggerAtSecondOfDay
                             /\ t.effectIndices = copy.effectIndices
             IN \/ trigs' = trigs
                \/ \E p \in 1..Len(trigs) :
                      Match(trigs[p]) /\ trigs' = RemoveAt(trigs, p)]_vars

(* The step is the Create the form input f confirms *)
CreatedWith(f) == Created /\ CreateAlarm(f[1], f[2], f[3], f[4], f[5])

(* The library after a Create of f without audio: one type-6 entry more,   *)
(* appended last, with text f[3], no audio field, no loop field unless     *)
(* loop is set, every earlier entry unchanged                              *)
CreateAppendsEntry(f) ==
    /\ Len(lib') = Len(lib) + 1
    /\ SubSeq(lib', 1, Len(lib)) = lib
    /\ lib'[Len(lib')].type = AlarmType
    /\ lib'[Len(lib')].text = f[3]
    /\ lib'[Len(lib')].audioFileName = Absent
    /\ (~f[5] => lib'[Len(lib')].loop = Absent)

(* encode(T, e) of the claims: str(seconds), str(seconds + 100000) *)
Encoded(seconds, enabled) ==
    IF enabled THEN PyStr(seconds) ELSE PyStr(seconds + 100000)

C4_CreateKeepsView ==
    [][(Created /\ PlainDocument) =>
          /\ Len(alarms') = Len(alarms) + 1
          /\ SubSeq(ShownList(alarms'), 1, Len(alarms)) = ShownList(alarms)]_vars

(* The view-records Save keeps: those whose type6_index is a position of   *)
(* the alarm-kind subsequence of the current library                       *)
Projects(a) == a.type6_index \in 0..(Type6Count(lib) - 1)

(* C5: Save replaces the time triggers of the document by one trigger per  *)
(* view-record whose type6_index projects, in view order, with the time    *)
(* field encode(seconds, enabled) and the one reference the fresh          *)
(* projection gives, a type-6 position; the other records are dropped      *)
C5_SaveRebuildsTimeTriggers ==
    [][Saved =>
          LET kept == SelectSeq(alarms, Projects)
              after == SelectSeq(trigs', HasTime)
          IN /\ Len(after) = Len(kept)
             /\ \A k \in 1..Len(kept) :
                   /\ after[k].triggerAtSecondOfDay
                         = Encoded(kept[k].seconds, kept[k].enabled)
                   /\ Len(after[k].effectIndices) = 1
                   /\ LET p == after[k].effectIndices[1]
                      IN /\ p \in 0..(Len(lib') - 1)
                         /\ IsType6(lib'[p + 1])
                         /\ Type6Before(lib', p) = kept[k].type6_index]_vars

C5_Witness ==
    /\ last.op = "Save"
    /\ ~last.ok
    /\ \E k \in 1..Len(alarms) : ~Projects(alarms[k])
    /\ \E k \in 1..Len(alarms) : Projects(alarms[k])
    /\ Len(SelectSeq(trigs, HasTime)) = Len(SelectSeq(alarms, Projects))

(* C6: a Save that follows a Save with no edit in between leaves the       *)
(* trigger array as the first left it, and Save leaves the non-time        *)
(* triggers first and the time triggers after them                         *)
C6_SaveIdempotent ==
    [][Saved =>
          /\ trigs' = SelectSeq(trigs', NoTime) \o SelectSeq(trigs', HasTime)
          /\ (last.op = "Save" => trigs' = trigs)]_vars

C6_Witness ==
    /\ last.op = "Save"
    /\ last.prev = "Save"
    /\ Len(SelectSeq(trigs, NoTime)) > 0
    /\ Len(SelectSeq(trigs, HasTime)) > 1
    /\ last.ok
    /\ diskTrigs = trigs

(* C7: no step changes the subsequence of the triggers without the time    *)
(* field                                                                   *)
C7_NonTimeTriggersKept ==
    [][SelectSeq(trigs', NoTime) = SelectSeq(trigs, NoTime)]_vars

(* C8: no step changes the subsequence of the library entries of another   *)
(* kind than alarm                                                         *)
C8_OtherKindsKept ==
    [][SelectSeq(lib', NotType6) = SelectSeq(lib, NotType6)]_vars

C8_Witness ==
    /\ last.op = "Delete"
    /\ \E p \in 1..Len(lib) : NotType6(lib[p]) /\ Type6Before(lib, p - 1) > 0
    /\ Len(lib) < Len(diskLib)

(* C9: every view-record's type6_index is in the domain of the projection  *)
(* of the current library, projects to the record's actual_index, and that *)
(* position holds a type-6 entry                                           *)
C9_ViewRecordsProject ==
    \A k \in 1..Len(alarms) :
        LET a == alarms[k] IN
        /\ a.type6_index \in 0..(Type6Count(lib) - 1)
        /\ a.actual_index \in 0..(Len(lib) - 1)
        /\ IsType6(lib[a.actual_index + 1])
        /\ Type6Before(lib, a.actual_index) = a.type6_index

C9_Witness ==
    /\ last.op = "Delete"
    /\ ops >= 2
    /\ \E k \in 1..Len(alarms) : alarms[k].type6_index # alarms[k].actual_index
    /\ Len(alarms) > 1

(* C10: Delete of a view-record whose trigger is in the document removes   *)
(* that trigger and the record's library entry (stated for plain           *)
(* documents)                                                              *)
C10_DeleteRemovesBoth ==
    [][\A i \in 0..(Len(alarms) - 1) :
          (Deleted(i) /\ PlainDocument /\ Copies(trigs, alarms[i + 1].trigger) = 1)
             => /\ Copies(trigs', alarms[i + 1].trigger) = 0
                /\ lib' = RemoveAt(lib, alarms[i + 1].actual_index + 1)]_vars

(* The step is a Save, of the alarm editor or of the note editor, whose    *)
(* write of the file failed                                                *)
SaveFailed == (last'.op = "Save" \/ last'.op = "NoteSave") /\ ~last'.ok

(* C11: a Save whose write fails leaves the in-memory document as it was   *)
(* before the Save: the library, the trigger array and the notes array     *)
C11_FailedSaveKeepsDocument ==
    [][SaveFailed => (lib' = lib /\ trigs' = trigs /\ notes' = notes)]_vars

(* The step is the confirm of the alarm form holding f, for a new alarm or *)
(* for an alarm of the view                                                *)
AlarmConfirmedWith(f) ==
    /\ last'.op \in {"Create", "Update", "Rejected"}
    /\ \/ CreateAlarm(f[1], f[2], f[3], f[4], f[5])
       \/ \E index \in 0..(Len(alarms) - 1) :
             UpdateAlarm(index, f[1], f[2], f[3], f[4], f[5])
       \/ \E index \in -1..(Len(alarms) - 1) : Rejected(index, f[1])

(* The step is the confirm of the note form holding g *)
NoteConfirmedWith(g) ==
    /\ last'.op \in {"NoteCreate", "NoteUpdate", "NoteRejected"}
    /\ \/ CreateNote(g[1], g[2])
       \/ \E index \in 0..(Len(noteView) - 1) : UpdateNote(index, g[1], g[2])
       \/ \E index \in -1..(Len(noteView) - 1) : NoteRejected(index, g[2])

(* The time strings of the form inputs that are no HH:MM time *)
InvalidTimes == { <<"2", "5", ":", "0", "0">> }

(* The note texts of the form inputs that are blank *)
BlankTexts == { <<" ", "\n">> }

(* C12: the confirm of an alarm form whose time is invalid, and of a note   *)
(* form whose text is blank, changes neither the document nor the views    *)
C12_RejectedEditChangesNothing ==
    [][/\ \A f \in FormInputs :
             (f[1] \in InvalidTimes /\ AlarmConfirmedWith(f)) =>
                 UNCHANGED <<lib, trigs, notes, alarms, noteView,
                             type6_effects, type6_to_actual_index,
                             diskLib, diskTrigs, diskNotes>>
       /\ \A g \in NoteInputs :
             (g[2] \in BlankTexts /\ NoteConfirmedWith(g)) =>
                 UNCHANGED <<lib, trigs, notes, alarms, noteView,
                             type6_effects, type6_to_actual_index,
                             diskLib, diskTrigs, diskNotes>>]_vars

C12_Witness ==
    /\ last.op = "NoteRejected"
    /\ last.prev = "Rejected"
    /\ last.idx >= 0
    /\ Len(alarms) > 1
    /\ notes.list # diskNotes.list

(* The step ran load_config and the load failed *)
LoadFailed ==
    /\ last'.op \in {"OpenAlarm", "OpenAlarmCrashed", "OpenNote", "SetDirectory"}
    /\ ~last'.ok

(* The step opened an editing session *)
SessionOpened == last'.op \in {"OpenAlarm", "OpenNote"}

(* C13: a load that fails leaves the library and the trigger array of the  *)
(* in-memory document as they were, and the step of the failed load opens  *)
(* no alarm or note editing session                                        *)
C13_FailedLoadOpensNoSession ==
    [][LoadFailed => (lib' = lib /\ trigs' = trigs /\ ~SessionOpened)]_vars

(* The step built the view of an alarm editor opened from the main window *)
Listed == last'.op = "OpenAlarm"

(* C14: every view-record List builds has its seconds in [0, 86400)        *)
C14_ListedSecondsInDay ==
    [][Listed => \A k \in 1..Len(alarms') :
                     alarms'[k].seconds \in 0..(DayLength - 1)]_vars

(* C15: for every seconds in [0, 86400) and every enabled flag, the time   *)
(* field written for (seconds, enabled) is read back by List as            *)
(* (seconds, enabled)                                                      *)
C15_EncodeDecodeRoundTrip ==
    probe.done =>
        /\ probe.seconds \in 0..86399
        /\ probe.back.seconds = probe.seconds
        /\ probe.back.enabled = probe.enabled

C15_Witness ==
    /\ probe.done
    /\ probe.seconds = 0
    /\ ~probe.enabled
    /\ probe.field = <<"1", "0", "0", "0", "0", "0">>

(* C16: the time field written for a disabled alarm is the decimal form of *)
(* an integer at or above 100000, the one written for an enabled alarm of  *)
(* an integer below 100000                                                 *)
C16_EncodingRangesDisjoint ==
    probe.done =>
        LET written == PyInt(probe.field) IN
        /\ written.ok
        /\ probe.field = PyStr(written.val)
        /\ (probe.enabled => written.val < 100000)
        /\ (~probe.enabled => written.val >= 100000)

C16_Witness ==
    /\ probe.done
    /\ probe.seconds = 86399
    /\ probe.enabled
    /\ probe.field = <<"8", "6", "3", "9", "9">>

(* The time fields of the opened documents that are no integer: text that  *)
(* is no integer literal, the empty string, null, and the number read as   *)
(* the float inf                                                           *)
NonIntegerFields ==
    { <<"a", "b", "c">>, <<"6", "0", "s">>, <<>>, Null, Infinity }

(* The trigger's first effect reference is the position of a type-6 entry  *)
(* of library L                                                            *)
RefersToAlarm(L, t) ==
    /\ Len(t.effectIndices) > 0
    /\ t.effectIndices[1] \in 0..(Len(L) - 1)
    /\ L[t.effectIndices[1] + 1].type = 6

(* The step ran the List of an alarm editor being opened *)
ListRun == last'.op \in {"OpenAlarm", "OpenAlarmCrashed"}

(* C17: List does not fail on a time trigger whose time field is no        *)
(* integer: it lists the trigger, when its first reference is a type-6     *)
(* entry, with seconds 0 and the entry's name, audio and loop              *)
C17_NonIntegerFieldListedAtZero ==
    [][ListRun =>
          LET tt == SelectSeq(trigs', HasTime) IN
          \A k \in 1..Len(tt) :
              (tt[k].triggerAtSecondOfDay \in NonIntegerFields) =>
                  /\ last'.op = "OpenAlarm"
                  /\ RefersToAlarm(lib', tt[k]) =>
                        \E a \in 1..Len(alarms') :
                            LET e == lib'[tt[k].effectIndices[1] + 1] IN
                            /\ alarms'[a].trigger_index = k - 1
                            /\ alarms'[a].seconds = 0
                            /\ alarms'[a].name = e.text
                            /\ alarms'[a].audio_file
                                  = (IF e.audioFileName = Absent THEN ""
                                     ELSE e.audioFileName)
                            /\ alarms'[a].loop = (e.loop = "true")]_vars

C19_UpdateChangesOwnEntryOnly ==
    [][\A f \in FormInputs : \A i \in 0..(Len(alarms) - 1) :
          (/\ last'.op = "Update"
           /\ last'.idx = i
           /\ UpdateAlarm(i, f[1], f[2], f[3], f[4], f[5])) =>
              LET p == alarms[i + 1].actual_index + 1 IN
              /\ Len(lib') = Len(lib)
              /\ \A q \in 1..Len(lib) : q # p => lib'[q] = lib[q]
              /\ lib'[p].type = lib[p].type
              /\ lib'[p].type = 6
              /\ lib'[p].pass = lib[p].pass
              /\ lib'[p].text = f[3]
              /\ (f[4] # "" => lib'[p].audioFileName = f[4])
              /\ (f[4] = "" => lib'[p].audioFileName = Absent)
              /\ (f[5] => lib'[p].loop = "true")
              /\ (~f[5] => lib'[p].loop = Absent)
              /\ alarms'[i + 1].trigger.effectIndices = <<p - 1>>
              /\ alarms'[i + 1].actual_index = p - 1]_vars

C19_Witness ==
    /\ last.op = "Update"
    /\ Len(lib) = Len(diskLib)
    /\ \E p \in 2..Len(lib) :
          /\ diskLib[p].audioFileName = "a.mp3"
          /\ diskLib[p].loop = "true"
          /\ lib[p].audioFileName = Absent
          /\ lib[p].loop = Absent
          /\ lib[p].text = "W"
          /\ lib[p].pass = diskLib[p].pass
          /\ \A q \in 1..Len(lib) : q # p => lib[q] = diskLib[q]

(* C20: the session's map from type-6 index to absolute position, and its *)
(* inverse as _load_data builds it: every position of the library holding  *)
(* a type-6 entry has a type-6 index, which maps back to that position;    *)
(* a position holding an entry of another kind has none                    *)
C20_ProjectionRoundTrip ==
    LET map == type6_to_actual_index IN
    /\ map = Type6Indices(lib)
    /\ \A p \in 0..(Len(lib) - 1) :
          LET k == ActualToType6(map, p) IN
          IF lib[p + 1].type = 6
          THEN k \in 0..(Len(map) - 1) /\ map[k + 1] = p
          ELSE k = -1

C20_Witness ==
    /\ last.op = "Delete"
    /\ last.prev = "Create"
    /\ Len(type6_to_actual_index) >= 2
    /\ \E p \in 1..Len(lib) :
          /\ lib[p].type # 6
          /\ \E q \in (p + 1)..Len(lib) :
                lib[q].type = 6 /\ ActualToType6(type6_to_actual_index, q - 1) = q - 2

-----------------------------------------------------------------------------
(* The time field of the alarm form, validated *)

(* The longest text typed into the time field *)
MaxTimeLen == 5

(* The characters typed into the time field: digits that reach the hour    *)
(* 24 and the minute 60, the separator, the signs, a blank and a letter    *)
TimeChars == {"0", "2", "4", "6", ":", "-", "+", " ", "x"}

TimeStrings == UNION {[1..n -> TimeChars] : n \in 0..MaxTimeLen}

(* An alarm form open on the document (GoodLib, GoodTrigs) with a text in  *)
(* its time field                                                          *)
InitForm ==
    /\ lib = GoodLib
    /\ trigs = GoodTrigs
    /\ notes = NoNotes
    /\ diskLib = lib
    /\ diskTrigs = trigs
    /\ diskNotes = notes
    /\ file = "ok"
    /\ alarms = LoadAlarms(lib, trigs)
    /\ type6_effects = get_type6_effects(lib)
    /\ type6_to_actual_index = Type6Indices(lib)
    /\ noteView = <<>>
    /\ bound = FALSE
    /\ main = [buttons |-> TRUE, alarm |-> TRUE, note |-> FALSE]
    /\ \E time_str \in TimeStrings : probe = [NoProbe EXCEPT !.field = time_str]
    /\ last = [op |-> "Open", idx |-> -1, ok |-> TRUE, prev |-> "None"]
    /\ ops = 0

(* save_alarm up to its validation: seconds = time_to_seconds(time_str),   *)
(* and the form goes on when seconds >= 0                                  *)
ValidateTime ==
    /\ ~probe.done
    /\ LET seconds == time_to_seconds(probe.field) IN
       /\ probe' = [probe EXCEPT !.seconds = seconds, !.done = TRUE]
       /\ last' = [op |-> "ValidateTime", idx |-> -1, ok |-> seconds >= 0, prev |-> last.op]
    /\ UNCHANGED <<alarmVars, noteVars, diskLib, diskTrigs, diskNotes, file, main>>

NextForm == Step /\ ValidateTime

SpecForm == InitForm /\ [][NextForm]_vars

(* A part of a time string that reads as an integer: decimal digits after  *)
(* at most one sign, blanks around them set aside                          *)
IsIntegerPart(s) ==
    LET t == Strip(s)
        d == IF Len(t) > 0 /\ t[1] \in {"-", "+"} THEN Tail(t) ELSE t
    IN Len(d) > 0 /\ \A k \in 1..Len(d) : IsDigit(d[k])

IntegerPart(s) ==
    LET t == Strip(s) IN
    IF t[1] = "-" THEN 0 - DigitsVal(Tail(t))
    ELSE IF t[1] = "+" THEN DigitsVal(Tail(t)) ELSE DigitsVal(t)

(* The positions of the separator in a time string *)
Colons(s) == {k \in 1..Len(s) : s[k] = ":"}

(* HH:MM with 0 <= HH < 24 and 0 <= MM < 60 *)
WellFormedTime(s) ==
    /\ Cardinality(Colons(s)) = 1
    /\ LET p == CHOOSE k \in Colons(s) : TRUE
           HH == SubSeq(s, 1, p - 1)
           MM == SubSeq(s, p + 1, Len(s))
       IN /\ IsIntegerPart(HH) /\ IsIntegerPart(MM)
          /\ 0 <= IntegerPart(HH) /\ IntegerPart(HH) < 24
          /\ 0 <= IntegerPart(MM) /\ IntegerPart(MM) < 60

TimeValue(s) ==
    LET p == CHOOSE k \in Colons(s) : TRUE
    IN IntegerPart(SubSeq(s, 1, p - 1)) * 3600 + IntegerPart(SubSeq(s, p + 1, Len(s))) * 60

(* C21: a time string is accepted exactly when it splits on ':' into two   *)
(* integer parts HH and MM with 0 <= HH < 24 and 0 <= MM < 60, and then    *)
(* yields HH*3600 + MM*60, a value of 0..86399; every other string is      *)
(* rejected with -1                                                        *)
C21_TimeStringValidation ==
    probe.done =>
        IF WellFormedTime(probe.field)
        THEN /\ last.ok
             /\ probe.seconds = TimeValue(probe.field)
             /\ probe.seconds \in 0..(DayLength - 1)
        ELSE ~last.ok /\ probe.seconds = -1

(* "24:00" rejected and "20:46" accepted as 74760 are both met *)
C21_Witness ==
    /\ probe.done
    /\ \/ probe.field = <<"2", "0", ":", "4", "6">> /\ probe.seconds = 74760
       \/ probe.field = <<"2", "4", ":", "0", "0">> /\ probe.seconds = -1

-----------------------------------------------------------------------------
(* The visible field of the notes *)

(* A stored note as the view shows it: visible is true when the record     *)
(* lacks the field, and the record is as stored otherwise                  *)
ShownNote(record) ==
    IF record.visible = Absent
    THEN [visible |-> "true", backgroundImage |-> record.backgroundImage,
          text |-> record.text, scale |-> record.scale, extra |-> record.extra]
    ELSE record

ShownNotes(N) == [k \in 1..Len(N.list) |-> ShownNote(N.list[k])]

WroteFile == last'.op \in {"Save", "NoteSave"} /\ last'.ok

(* C22: after the load the view shows every note without the visible field *)
(* as visible and every other note as stored; the notes of the file change *)
(* only when a Save writes it; and a note Save of the view as loaded       *)
(* writes the notes with visible: true in the records that lacked it       *)
C22_VisibleDefaultPersistedBySave ==
    [][ /\ (last.op = "Open" => noteView = ShownNotes(diskNotes))
        /\ (diskNotes' # diskNotes => WroteFile)
        /\ (last'.op = "NoteSave" /\ last'.ok /\ noteView = ShownNotes(diskNotes)
               => diskNotes' = [key |-> TRUE, list |-> ShownNotes(diskNotes)])
      ]_vars

(* The note Save right after the load has written visible: true into the   *)
(* record that lacked it                                                   *)
C22_Witness ==
    /\ last.op = "NoteSave" /\ last.ok /\ last.prev = "Open"
    /\ Len(diskNotes.list) = 2
    /\ diskNotes.list[1].visible = "true" /\ diskNotes.list[1].extra = "x"
    /\ diskNotes.list[2].visible = "false"

-----------------------------------------------------------------------------
(* The frame of the note operations *)

NoteUpdated(i) == last'.op = "NoteUpdate" /\ last'.idx = i

(* Every field of a note but its visible flag and its text *)
NoteRest(note) == <<note.backgroundImage, note.scale, note.extra>>

(* C23: update(i) changes only the visible flag and the text of note i and *)
(* keeps its background image and scale; remove(i) removes exactly note i; *)
(* add appends one note last; each leaves every other note unchanged and   *)
(* in its order                                                            *)
C23_NoteOperationsFrame ==
    [][ /\ \A i \in 0..(Len(noteView) - 1) :
              NoteUpdated(i) =>
                  /\ Len(noteView') = Len(noteView)
                  /\ \A k \in 1..Len(noteView) : k # i + 1 => noteView'[k] = noteView[k]
                  /\ NoteRest(noteView'[i + 1]) = NoteRest(noteView[i + 1])
        /\ \A i \in 0..(Len(noteView) - 1) :
              (last'.op = "NoteDelete" /\ last'.idx = i) =>
                  /\ Len(noteView') = Len(noteView) - 1
                  /\ \A k \in 1..i : noteView'[k] = noteView[k]
                  /\ \A k \in (i + 1)..Len(noteView') : noteView'[k] = noteView[k + 1]
        /\ last'.op = "NoteCreate" =>
              /\ Len(noteView') = Len(noteView) + 1
              /\ \A k \in 1..Len(noteView) : noteView'[k] = noteView[k]
      ]_vars

-----------------------------------------------------------------------------
(* The projection of the library onto its alarm entries *)

(* An entry to store, for the comparison of set_type6_effect *)
StoredEffect ==
    [type |-> AlarmType, text |-> "Z", audioFileName |-> Absent, loop |-> Absent,
     pass |-> 0]

(* The library with the entry at 0-based position p replaced, and removed *)
ReplacedAt(L, p, e) == [k \in 1..Len(L) |-> IF k = p + 1 THEN e ELSE L[k]]

WithoutPosition(L, p) ==
    [k \in 1..(Len(L) - 1) |-> IF k < p + 1 THEN L[k] ELSE L[k + 1]]

(* C24: the session's map sends N to the position of the N-th alarm entry  *)
(* of the library, counted from 0 and in the library's order; and for      *)
(* every index i, set_type6_effect(i, e) and remove_type6_effect(i) act on *)
(* the position the session's map gives for i, and leave the library as it *)
(* is when i is not an index of an alarm entry                             *)
C24_ProjectionsAgree ==
    LET map == type6_to_actual_index
        n == Type6Count(lib)
    IN /\ Len(map) = n
       /\ \A N \in 0..(n - 1) :
             /\ map[N + 1] \in 0..(Len(lib) - 1)
             /\ IsType6(lib[map[N + 1] + 1])
             /\ Type6Before(lib, map[N + 1]) = N
       /\ \A N, M \in 0..(n - 1) : N < M => map[N + 1] < map[M + 1]
       /\ Type6Indices(lib) = map
       /\ \A i \in -2..(Len(lib) + 1) :
             IF i \in 0..(n - 1)
             THEN /\ set_type6_effect(lib, i, StoredEffect)
                        = ReplacedAt(lib, map[i + 1], StoredEffect)
                  /\ remove_type6_effect(lib, i) = WithoutPosition(lib, map[i + 1])
             ELSE /\ set_type6_effect(lib, i, StoredEffect) = lib
                  /\ remove_type6_effect(lib, i) = lib

(* An Update has gone through set_type6_effect with an index that is not   *)
(* the position of its entry, in a library with an index that is no alarm  *)
(* entry's                                                                 *)
C24_Witness ==
    /\ last.op = "Update"
    /\ last.idx >= 0 /\ last.idx < Len(alarms)
    /\ alarms[last.idx + 1].type6_index # alarms[last.idx + 1].actual_index
    /\ alarms[last.idx + 1].name = lib[alarms[last.idx + 1].actual_index + 1].text
    /\ Type6Count(lib) < Len(lib)

-----------------------------------------------------------------------------
(* The references of the triggers without the time field *)

(* The library entry a reference designates, if any *)
EntryAt(L, p) == IF p \in 0..(Len(L) - 1) THEN <<L[p + 1]>> ELSE <<>>

(* C25: a Delete leaves, under every position of the reference list of     *)
(* every trigger without the time field, the library entry that was there  *)
(* before                                                                  *)
C25_DeleteKeepsNonTimeReferences ==
    [][\A i \in 0..(Len(alarms) - 1) :
          Deleted(i) =>
             \A k \in 1..Len(trigs) :
                NoTime(trigs[k]) =>
                   \A r \in 1..Len(trigs[k].effectIndices) :
                      EntryAt(lib', trigs[k].effectIndices[r])
                         = EntryAt(lib, trigs[k].effectIndices[r])]_vars

-----------------------------------------------------------------------------
(* An alarm opened in the form and confirmed as the form shows it *)

(* f"{n:02d}" *)
Format02d(n) == IF 0 <= n /\ n < 10 THEN <<"0">> \o PyStr(n) ELSE PyStr(n)

(* utils.seconds_to_time *)
seconds_to_time(seconds) ==
    LET hours == seconds \div 3600
        minutes == (seconds % 3600) \div 60
    IN Format02d(hours) \o <<":">> \o Format02d(minutes)

(* The time fields of the documents the form is opened on: whole minutes,  *)
(* seconds between two minutes, the last second of the day, a time past    *)
(* the day and a negative one                                              *)
ReopenTimes ==
    { T60, T100120,
      <<"9", "0">>,
      <<"1", "0", "0", "0", "9", "0">>,
      <<"8", "6", "3", "9", "9">>,
      <<"9", "0", "0", "0", "0">>,
      <<"-", "5">> }

ReopenKindLists == { <<AlarmType, AlarmType>>, <<1, AlarmType, AlarmType>> }

(* The alarm editor opened on a document with two alarms *)
InitReopen ==
    /\ \E kinds \in ReopenKindLists :
          /\ lib = [k \in 1..Len(kinds) |-> InitEffect(kinds[k], k - 1)]
          /\ \E t1 \in ReopenTimes, t2 \in ReopenTimes :
                trigs = << [triggerAtSecondOfDay |-> t1,
                            effectIndices |-> <<Len(kinds) - 2>>, extra |-> 1],
                           [triggerAtSecondOfDay |-> NoKey,
                            effectIndices |-> <<0>>, extra |-> 2],
                           [triggerAtSecondOfDay |-> t2,
                            effectIndices |-> <<Len(kinds) - 1>>, extra |-> 3] >>
    /\ notes = NoNotes
    /\ diskLib = lib
    /\ diskTrigs = trigs
    /\ diskNotes = notes
    /\ file = "ok"
    /\ alarms = LoadAlarms(lib, trigs)
    /\ type6_effects = get_type6_effects(lib)
    /\ type6_to_actual_index = Type6Indices(lib)
    /\ noteView = <<>>
    /\ bound = FALSE
    /\ main = [buttons |-> TRUE, alarm |-> TRUE, note |-> FALSE]
    /\ probe = NoProbe
    /\ last = [op |-> "Open", idx |-> -1, ok |-> TRUE, prev |-> "None"]
    /\ ops = 0

(* _edit_alarm(index) filling the form from the view-record (lines 162,    *)
(* 183, 187, 193, 199, 213), and save_alarm on the form as filled          *)
Reconfirm ==
    \E index \in 0..(Len(alarms) - 1) :
        LET alarm == alarms[index + 1]
            time_str == seconds_to_time(alarm.seconds)
        IN \/ UpdateAlarm(index, time_str, alarm.enabled, alarm.name,
                          alarm.audio_file, alarm.loop)
           \/ Rejected(index, time_str)

NextReopen == Step /\ (Reconfirm \/ Save)

SpecReopen == InitReopen /\ [][NextReopen]_vars

(* C26: confirming the form of an alarm as it was filled is accepted and   *)
(* leaves the seconds, enabled, name, audio and loop of the view-record as *)
(* they were                                                               *)
C26_ReconfirmIsNoOp ==
    [][\A i \in 0..(Len(alarms) - 1) :
          (last'.op \in {"Update", "Rejected"} /\ last'.idx = i)
             => /\ last'.ok
                /\ Shown(alarms'[i + 1]) = Shown(alarms[i + 1])]_vars

-----------------------------------------------------------------------------
(* A Save after the main window reloaded the document *)

(* The time trigger Save wrote for view-record a designates a library      *)
(* entry that has the name, audio and loop the record shows                *)
PersistedAs(a, t, L) ==
    /\ t.triggerAtSecondOfDay = Encoded(a.seconds, a.enabled)
    /\ Len(t.effectIndices) = 1
    /\ LET p == t.effectIndices[1]
       IN /\ p \in 0..(Len(L) - 1)
          /\ IsType6(L[p + 1])
          /\ L[p + 1].text = a.name
          /\ EffectAudio(L[p + 1]) = a.audio_file
          /\ EffectLoop(L[p + 1]) = a.loop

(* No two alarms of the view share a library entry *)
DistinctEntries ==
    \A j, k \in 1..Len(alarms) :
        j # k => alarms[j].type6_index # alarms[k].type6_index

EditedThenReloaded ==
    last.op = "Reload" /\ last.prev \in {"Create", "Update", "Delete"}

(* C27: a Save that follows a reload of the document by the main window,   *)
(* made while the session had an unsaved Create, Update or Delete, writes  *)
(* one time trigger per alarm of the view, in view order, each with the    *)
(* record's time and a reference to a library entry with the record's      *)
(* name, audio and loop (for views whose alarms have a library entry each) *)
C27_SaveAfterReloadPersistsView ==
    [][(Saved /\ last'.ok /\ EditedThenReloaded /\ DistinctEntries) =>
          LET after == SelectSeq(diskTrigs', HasTime)
          IN /\ Len(after) = Len(alarms)
             /\ \A k \in 1..Len(alarms) : PersistedAs(alarms[k], after[k], diskLib')]_vars

-----------------------------------------------------------------------------
(* What the Save of one editor writes of the other editor's changes *)

(* C28: a Save of the alarm editor leaves the notes of the file as they    *)
(* were (the visible default aside), and a Save of the note editor leaves  *)
(* the library of the file as it was                                       *)
C28_SaveWritesOwnEditorOnly ==
    [][ /\ (last'.op = "Save" /\ last'.ok)
               => ShownNotes(diskNotes') = ShownNotes(diskNotes)
        /\ (last'.op = "NoteSave" /\ last'.ok) => diskLib' = diskLib
      ]_vars

=============================================================================
